---------------------------- MODULE Spec2Model ----------------------------
(***************************************************************************)
(* Model of the Root tournament manager (src/root_tournament.py).          *)
(*                                                                         *)
(* The program is a Streamlit script: every user interaction runs the      *)
(* whole script once against st.session_state.  The state of the model is  *)
(* the session state (players, games, next_turn_order_names, initialized,  *)
(* show_faction_warning, warning_messages), the pending st.rerun(), the    *)
(* hash seed of the interpreter (it fixes the iteration order of the set   *)
(* of names at setup), and what the last script run read from its forms    *)
(* and wrote to the page.  The tables computed for display from the        *)
(* session state (generate_plot_data, calculate_faction_stats) are         *)
(* operators on the games and players; the display string                  *)
(* played_factions_str, the standings and the map statistics are not part  *)
(* of the model.                                                           *)
(***************************************************************************)
EXTENDS Integers, Sequences, FiniteSets, TLC

(* ---------------------------- constants ------------------------------- *)

FACTIONS ==
    << "Marquise de Cat", "Eyrie Dynasties", "Woodland Alliance", "Vagabond",
       "Riverfolk Company", "Lizard Cult", "Underground Duchy",
       "Corvid Conspiracy" >>

MAPS ==
    << "Autumn", "Winter", "Mountain", "Lake" >>

NUM_PLAYERS ==
    5

TOURNAMENT_POINTS_MAP ==
    [r \in 1..5 |-> CASE r = 1 -> 10 [] r = 2 -> 7 [] r = 3 -> 5
                      [] r = 4 -> 3 [] r = 5 -> 1]

(* ------------------------------ bounds -------------------------------- *)

\* games logged in one behaviour
MaxGames ==
    2

\* hash seeds of the interpreter that are explored (0..MaxHashSeed)
MaxHashSeed ==
    1

\* the names the operator types from
NAME_POOL ==
    << "Ann", "Bob", "Cat", "Dan", "Eve" >>

\* what the operator types into the name fields: the names of the pool in
\* order (choice 1 in every field), or that with one field left empty
\* (choice 0) or holding the next name of the pool (choice 2), which then
\* stands in two fields
NameInputs ==
    { [i \in 1..NUM_PLAYERS |->
          CASE c[i] = 0 -> ""
            [] c[i] = 1 -> NAME_POOL[i]
            [] OTHER -> NAME_POOL[(i % Len(NAME_POOL)) + 1]] :
        c \in { c \in [1..NUM_PLAYERS -> 0..2] :
                  Cardinality({ i \in 1..NUM_PLAYERS : c[i] # 1 }) <= 1 } }

\* victory points entered, by position in the turn order
VPInputs ==
    { << 30, 10, 30, 10, 25 >>,
      << 10, 25, 0, 25, 5 >>,
      << 0, 5, 10, 25, 30 >> }

\* factions selected, by position in the turn order: five distinct ones
\* starting at FACTIONS[s], or pairs FACTIONS[s], FACTIONS[s], FACTIONS[s+1], ...
FactionInputs ==
    { [i \in 1..NUM_PLAYERS |-> FACTIONS[((i - 1) \div d) + s]] :
        d \in 1..2, s \in 1..2 }

MapInputs ==
    { MAPS[1], MAPS[2] }

\* largest total_tp of the players handed to calculate_next_turn_order
MaxTP ==
    1

\* the rosters handed to calculate_next_turn_order on its own: the names of
\* the pool in registration order, every total_tp in 0..MaxTP and every
\* last_vp of 10 and 25
OrderInputs ==
    { [i \in 1..NUM_PLAYERS |->
          [ id |-> i - 1, name |-> NAME_POOL[i], total_tp |-> f[i][1],
            total_vp |-> f[i][2], wins |-> 0, last_vp |-> f[i][2],
            played_factions |-> << >>, total_placement_sum |-> 0,
            games_played |-> 0 ]] :
        f \in [1..NUM_PLAYERS -> (0..MaxTP) \X {10, 25}] }

(* ------------------------------- state -------------------------------- *)

VARIABLES
    players,                \* st.session_state.players
    games,                  \* st.session_state.games
    next_turn_order_names,  \* st.session_state.next_turn_order_names
    initialized,            \* st.session_state.initialized
    show_faction_warning,   \* st.session_state.show_faction_warning
    warning_messages,       \* st.session_state.warning_messages
    pc,                     \* "idle": page rendered; "rerun": st.rerun() pending
    hash_seed,              \* string hash seed of the interpreter
    player_names,           \* the name fields as last submitted
    game_results_input,     \* the game form as read by the last script run
    error,                  \* what the last script run passed to st.error
    shown_warnings          \* what the last script run passed to st.warning

vars ==
    << players, games, next_turn_order_names, initialized,
       show_faction_warning, warning_messages, pc, hash_seed, player_names,
       game_results_input, error, shown_warnings >>

(* ------------------------------ helpers ------------------------------- *)

Range(s) ==
    { s[i] : i \in 1..Len(s) }

RemoveAt(s, k) ==
    [i \in 1..(Len(s) - 1) |-> IF i < k THEN s[i] ELSE s[i + 1]]

\* Python's comparison of two tuples of integers: lexicographic.
TupleLess(a, b) ==
    \/ \E k \in 1..Len(a) :
          /\ k <= Len(b)
          /\ a[k] < b[k]
          /\ \A m \in 1..(k - 1) : a[m] = b[m]
    \/ /\ Len(a) < Len(b)
       /\ \A m \in 1..Len(a) : a[m] = b[m]

\* Python's sorted(seq, key=..., reverse=...), keys[i] being the key of
\* seq[i]: ascending by key (descending with reverse), and stable either
\* way: elements with equal keys keep their order in seq.
sorted(seq, keys, reverse) ==
    LET n == Len(seq)
        before(j, i) == IF reverse THEN TupleLess(keys[i], keys[j])
                        ELSE TupleLess(keys[j], keys[i])
        pos(i) == 1 + Cardinality({ j \in 1..n :
                        \/ before(j, i)
                        \/ ~before(i, j) /\ j < i })
    IN  [k \in 1..n |-> seq[CHOOSE i \in 1..n : pos(i) = k]]

\* The seed-th arrangement of seq (mixed radix: Len(seq), Len(seq)-1, ...).
RECURSIVE Arrangement(_, _)
Arrangement(seq, seed) ==
    IF seq = << >> THEN << >>
    ELSE LET n == Len(seq)
             k == (seed % n) + 1
         IN  << seq[k] >> \o Arrangement(RemoveAt(seq, k), seed \div n)

\* Iteration order of a Python set of strings: arbitrary, fixed by the hash
\* seed of the process.
SetIterationOrder(S, seed) ==
    LET inS(n) == n \in S
    IN  SelectSeq(Arrangement(NAME_POOL, seed), inS)

NoError ==
    [kind |-> "none", factions |-> << >>]

SetupError ==
    [kind |-> "setup", factions |-> << >>]

NoPlayersError ==
    [kind |-> "no_players", factions |-> << >>]

DuplicateFactionError(dups) ==
    [kind |-> "duplicate_faction", factions |-> dups]

(* ----------------------- functions of the script ---------------------- *)

\* get_player_data_by_name: index of the first player with that name, 0 for None
get_player_data_by_name(ps, name) ==
    IF \E i \in 1..Len(ps) : ps[i].name = name
    THEN CHOOSE i \in 1..Len(ps) :
            /\ ps[i].name = name
            /\ \A j \in 1..(i - 1) : ps[j].name # name
    ELSE 0

\* The key with the last-game victory points ascending.
TurnOrderKey_AscendingLastVP(p) ==
    << p.total_tp, p.last_vp >>

\* key=lambda p: (p['total_tp'], -p['last_vp'])
TurnOrderKey(p) ==
    << p.total_tp, 0 - p.last_vp >>

\* calculate_next_turn_order with players of equal key in reverse order.
calculate_next_turn_order_TiesReversed(ps) ==
    IF ps = << >> THEN << >>
    ELSE LET reversed == [i \in 1..Len(ps) |-> ps[Len(ps) + 1 - i]]
             keys == [i \in 1..Len(ps) |-> TurnOrderKey(reversed[i])]
             sorted_players == sorted(reversed, keys, FALSE)
         IN  [i \in 1..Len(sorted_players) |-> sorted_players[i].name]

calculate_next_turn_order(ps) ==
    IF ps = << >> THEN << >>
    ELSE LET keys == [i \in 1..Len(ps) |-> TurnOrderKey(ps[i])]
             sorted_players == sorted(ps, keys, FALSE)
         IN  [i \in 1..Len(sorted_players) |-> sorted_players[i].name]

\* NewPlayer giving every player the id 0.
NewPlayer_SameId(i, name) ==
    [ id |-> 0, name |-> name, total_tp |-> 0, total_vp |-> 0, wins |-> 0,
      last_vp |-> 0, played_factions |-> << >>, total_placement_sum |-> 0,
      games_played |-> 0 ]

NewPlayer(i, name) ==
    [ id |-> i, name |-> name, total_tp |-> 0, total_vp |-> 0, wins |-> 0,
      last_vp |-> 0, played_factions |-> << >>, total_placement_sum |-> 0,
      games_played |-> 0 ]

\* PointsForRank looking up the rank counted from 0.
PointsForRank_FromZero(rank) ==
    IF (rank - 1) \in DOMAIN TOURNAMENT_POINTS_MAP
    THEN TOURNAMENT_POINTS_MAP[rank - 1]
    ELSE 0

\* TOURNAMENT_POINTS_MAP.get(rank, 0)
PointsForRank(rank) ==
    IF rank \in DOMAIN TOURNAMENT_POINTS_MAP
    THEN TOURNAMENT_POINTS_MAP[rank]
    ELSE 0

\* The form fields of the game form, one per name of the turn order.
GameResultsInput(order, factions, vps) ==
    [i \in 1..Len(order) |->
        [name |-> order[i], faction |-> factions[i], vp |-> vps[i]]]

\* FactionWarningCheck stopping at the first row that repeats a faction.
FactionWarningCheck_FirstOnly(ps, input) ==
    LET played_before(r) ==
            LET k == get_player_data_by_name(ps, r.name)
            IN  IF k = 0 THEN << >> ELSE ps[k].played_factions
        repeats(r) == r.faction \in Range(played_before(r))
        rows == SelectSeq(input, repeats)
    IN  IF rows = << >> THEN << >>
        ELSE << << rows[1].name, rows[1].faction >> >>

\* One message (player, faction) for every form row whose faction the player
\* has played before.
FactionWarningCheck(ps, input) ==
    LET played_before(r) ==
            LET k == get_player_data_by_name(ps, r.name)
            IN  IF k = 0 THEN << >> ELSE ps[k].played_factions
        repeats(r) == r.faction \in Range(played_before(r))
        rows == SelectSeq(input, repeats)
    IN  [i \in 1..Len(rows) |-> << rows[i].name, rows[i].faction >>]

SelectedFactionsThisGame(input) ==
    [i \in 1..Len(input) |-> input[i].faction]

\* Duplicates stopping at the first faction that was chosen twice.
Duplicates_FirstOnly(selected) ==
    LET n == Len(selected)
        again(i) == \E j \in 1..(i - 1) : selected[j] = selected[i]
        idx == SelectSeq([i \in 1..n |-> i], again)
    IN  IF idx = << >> THEN << >> ELSE << selected[idx[1]] >>

\* [faction for faction, count in Counter(selected).items() if count > 1]:
\* a Counter keeps its keys in the order of first appearance.
Duplicates(selected) ==
    LET n == Len(selected)
        count(f) == Cardinality({ j \in 1..n : selected[j] = f })
        first(i) == \A j \in 1..(i - 1) : selected[j] # selected[i]
        keep(i) == first(i) /\ count(selected[i]) > 1
        idx == SelectSeq([i \in 1..n |-> i], keep)
    IN  [k \in 1..Len(idx) |-> selected[idx[k]]]

\* HasDuplicateFaction with the comparison the wrong way round.
HasDuplicateFaction_Inverted(selected) ==
    Len(selected) = Cardinality(Range(selected))

\* HasDuplicateFaction comparing the list with itself.
HasDuplicateFaction_Never(selected) ==
    Len(selected) # Len(selected)

\* len(selected) != len(set(selected))
HasDuplicateFaction(selected) ==
    Len(selected) # Cardinality(Range(selected))

\* key=lambda x: x['vp']
ResultKey(x) ==
    << x.vp >>

\* SortedResults sorting ascending and reversing the list.
SortedResults_TiesReversed(input) ==
    LET keys == [i \in 1..Len(input) |-> ResultKey(input[i])]
        ascending == sorted(input, keys, FALSE)
    IN  [i \in 1..Len(ascending) |-> ascending[Len(ascending) + 1 - i]]

\* sorted(game_results_input, key=lambda x: x['vp'], reverse=True):
\* descending by vp; equal vp keep the order of the form.
SortedResults(input) ==
    LET keys == [i \in 1..Len(input) |-> ResultKey(input[i])]
    IN  sorted(input, keys, TRUE)

\* CreditPlayer adding the victory points to last_vp.
CreditPlayer_AccumulateLastVP(p, result, rank, tp) ==
    [ p EXCEPT
        !.total_tp = @ + tp,
        !.total_vp = @ + result.vp,
        !.last_vp = @ + result.vp,
        !.played_factions =
            IF result.faction \notin Range(@) THEN Append(@, result.faction)
            ELSE @,
        !.total_placement_sum = @ + rank,
        !.games_played = @ + 1,
        !.wins = IF rank = 1 THEN @ + 1 ELSE @ ]

\* The body of the loop over enumerate(sorted_results, 1) for one player.
CreditPlayer(p, result, rank, tp) ==
    [ p EXCEPT
        !.total_tp = @ + tp,
        !.total_vp = @ + result.vp,
        !.last_vp = result.vp,
        !.played_factions =
            IF result.faction \notin Range(@) THEN Append(@, result.faction)
            ELSE @,
        !.total_placement_sum = @ + rank,
        !.games_played = @ + 1,
        !.wins = IF rank = 1 THEN @ + 1 ELSE @ ]

\* The loop over enumerate(sorted_results, 1) from rank on: the players and
\* the results of the log entry after it.
RECURSIVE LogResults(_, _, _, _)
LogResults(ps, results, sorted_results, rank) ==
    IF rank > Len(sorted_results) THEN [players |-> ps, results |-> results]
    ELSE LET result == sorted_results[rank]
             k == get_player_data_by_name(ps, result.name)
             tp == PointsForRank(rank)
             logged == [ name |-> result.name, faction |-> result.faction,
                         vp |-> result.vp, rank |-> rank, tp |-> tp ]
         IN  IF result.name = "" \/ k = 0
             THEN LogResults(ps, results, sorted_results, rank + 1)
             ELSE LogResults([ps EXCEPT ![k] = CreditPlayer(ps[k], result, rank, tp)],
                             Append(results, logged), sorted_results, rank + 1)

\* GameLogEntry numbering the games from 0.
GameLogEntry_NumberFromZero(number, map, order, results) ==
    [ game_number |-> number - 1, map |-> map, turn_order |-> order,
      results |-> results ]

GameLogEntry(number, map, order, results) ==
    [ game_number |-> number, map |-> map, turn_order |-> order,
      results |-> results ]

\* The tournament points the results of one game give to a name.
RECURSIVE PointsInGame(_, _)
PointsInGame(results, name) ==
    IF results = << >> THEN 0
    ELSE (IF Head(results).name = name THEN Head(results).tp ELSE 0)
         + PointsInGame(Tail(results), name)

\* AppendGamePoints appending what the game gave instead of the new total.
AppendGamePoints_NotCumulative(player_points_over_time, game) ==
    [ name \in DOMAIN player_points_over_time |->
        Append(player_points_over_time[name],
               PointsInGame(game.results, name)) ]

\* One round of the loop over the games: every known name gets one more
\* point, its last total plus the tp of its results in this game.
AppendGamePoints(player_points_over_time, game) ==
    [ name \in DOMAIN player_points_over_time |->
        LET points_list == player_points_over_time[name]
        IN  Append(points_list,
                   points_list[Len(points_list)]
                   + PointsInGame(game.results, name)) ]

\* player_points_over_time after the loop over the games; it starts with
\* the list [0] for every name.
RECURSIVE PlayerPointsOverTime(_, _)
PlayerPointsOverTime(gs, name_list) ==
    IF gs = << >> THEN [ name \in Range(name_list) |-> << 0 >> ]
    ELSE AppendGamePoints(
             PlayerPointsOverTime(SubSeq(gs, 1, Len(gs) - 1), name_list),
             gs[Len(gs)])

\* The rows of the frame generate_plot_data returns, in the order they are
\* appended: name after name (the names of a roster are distinct, so the
\* dictionary holds them in roster order), and per name index after index.
\* No rows without players.
generate_plot_data(gs, ps) ==
    LET name_list == [ i \in 1..Len(ps) |-> ps[i].name ]
        n == Len(gs) + 1
    IN  IF name_list = << >> THEN << >>
        ELSE [ r \in 1..(Len(ps) * n) |->
                 LET player_name == name_list[((r - 1) \div n) + 1]
                     game_idx == (r - 1) % n
                 IN  [ Spiel |-> game_idx,
                       Spieler |-> player_name,
                       Kumulierte_Turnierpunkte |->
                           PlayerPointsOverTime(gs, name_list)
                               [player_name][game_idx + 1] ] ]

\* faction_data[faction] after the results of one more game: a result that
\* names the faction adds one appearance, its vp and tp, and a win if its
\* rank is 1.
RECURSIVE AggregateResults(_, _, _)
AggregateResults(data, results, faction) ==
    IF results = << >> THEN data
    ELSE LET result == Head(results)
         IN  AggregateResults(
                 IF result.faction # "" /\ result.faction = faction
                 THEN [ count |-> data.count + 1,
                        total_vp |-> data.total_vp + result.vp,
                        total_tp |-> data.total_tp + result.tp,
                        wins |-> data.wins
                                 + (IF result.rank = 1 THEN 1 ELSE 0) ]
                 ELSE data,
                 Tail(results), faction)

\* faction_data[faction] after the loop over all games; the defaultdict
\* starts every faction at zero.
RECURSIVE FactionData(_, _)
FactionData(gs, faction) ==
    IF gs = << >>
    THEN [ count |-> 0, total_vp |-> 0, total_tp |-> 0, wins |-> 0 ]
    ELSE AggregateResults(FactionData(SubSeq(gs, 1, Len(gs) - 1), faction),
                          gs[Len(gs)].results, faction)

\* The cell '-' of a faction that was never played.
NoAverage ==
    [ text |-> "-", hundredths |-> 0 ]

\* f"{total / count:.2f}": the quotient rounded to the nearest hundredth,
\* kept as the number of hundredths.  A quotient exactly between two
\* hundredths needs a count divisible by 8 (then it is rounded to the even
\* hundredth).
FormatAverage(total, count) ==
    LET twice == (200 * total) \div count
        exact == (200 * total) % count = 0
        down == twice \div 2
    IN  [ text |-> "number",
          hundredths |->
              IF twice % 2 = 0 THEN down
              ELSE IF exact /\ down % 2 = 0 THEN down ELSE down + 1 ]

\* The dictionary appended to stats_list for one faction.
FactionStatsRow(gs, faction) ==
    LET data == FactionData(gs, faction)
    IN  IF data.count > 0
        THEN [ Fraktion |-> faction, Gespielt |-> data.count,
               Siege |-> data.wins,
               Avg_Siegpunkte |-> FormatAverage(data.total_vp, data.count),
               Avg_Turnierpunkte |-> FormatAverage(data.total_tp, data.count) ]
        ELSE [ Fraktion |-> faction, Gespielt |-> 0, Siege |-> 0,
               Avg_Siegpunkte |-> NoAverage,
               Avg_Turnierpunkte |-> NoAverage ]

\* calculate_faction_stats building the rows for an empty list of games too.
calculate_faction_stats_NoEarlyReturn(gs, factions) ==
    { FactionStatsRow(gs, factions[i]) : i \in 1..Len(factions) }

\* The rows of the frame calculate_faction_stats returns: none for an empty
\* list of games, else one per entry of factions.  sort_values orders the
\* rows by Gespielt, descending, and leaves the order of rows with equal
\* Gespielt to the sorting algorithm; the frame is kept as the set of its
\* rows, which every such order shares.
calculate_faction_stats(gs, factions) ==
    IF gs = << >> THEN {}
    ELSE { FactionStatsRow(gs, factions[i]) : i \in 1..Len(factions) }

(* ------------------------------ actions ------------------------------- *)

Init ==
    /\ players = << >>
    /\ games = << >>
    /\ next_turn_order_names = << >>
    /\ initialized = FALSE
    /\ show_faction_warning = FALSE
    /\ warning_messages = << >>
    /\ pc = "idle"
    /\ hash_seed \in 0..MaxHashSeed
    /\ player_names = << >>
    /\ game_results_input = << >>
    /\ error = NoError
    /\ shown_warnings = << >>

\* A script run in which the operator pressed "Turnier starten".
PlayerFormSubmit ==
    /\ pc = "idle"
    /\ ~initialized
    /\ \E names \in NameInputs :
        \E unique_names \in { Range(names) \ {""} } :
            /\ player_names' = names
            /\ IF Cardinality(unique_names) = NUM_PLAYERS
               THEN \E order \in { SetIterationOrder(unique_names, hash_seed) } :
                    \E created \in { [i \in 1..Len(order) |->
                                        NewPlayer(i - 1, order[i])] } :
                        /\ players' = created
                        /\ next_turn_order_names' =
                                calculate_next_turn_order(created)
                        /\ initialized' = TRUE
                        /\ pc' = "rerun"
                        /\ error' = NoError
               ELSE /\ error' = SetupError
                    /\ UNCHANGED << players, next_turn_order_names,
                                    initialized, pc >>
    /\ UNCHANGED << games, show_faction_warning, warning_messages, hash_seed,
                    game_results_input, shown_warnings >>

\* A script run without a submitted form (first load, the run after
\* st.rerun(), a click outside the forms): lines 302-363 and the read-only
\* tables, charts and export that follow.
ScriptRun ==
    /\ pc' = "idle"
    /\ game_results_input' = << >>
    /\ IF ~initialized
       THEN /\ error' = NoError
            /\ UNCHANGED << next_turn_order_names, show_faction_warning,
                            warning_messages, shown_warnings >>
       ELSE \E order \in { calculate_next_turn_order(players) } :
            \E show \in { order # << >> /\ show_faction_warning } :
                /\ next_turn_order_names' = order
                /\ error' = IF players = << >> THEN NoPlayersError ELSE NoError
                /\ shown_warnings' = IF show THEN warning_messages ELSE << >>
                /\ show_faction_warning' =
                        IF show THEN FALSE ELSE show_faction_warning
                /\ warning_messages' = IF show THEN << >> ELSE warning_messages
    /\ UNCHANGED << players, games, initialized, hash_seed, player_names >>

\* A script run in which the operator pressed "Spiel speichern": the page is
\* built as in ScriptRun up to the form, then the handler of the form runs.
\* flag and messages are the warning state after the page was built.
GameLogSubmit ==
    /\ pc = "idle"
    /\ initialized
    /\ Len(games) < MaxGames
    /\ \E order \in { calculate_next_turn_order(players) } :
       \E flag \in { IF show_faction_warning THEN FALSE
                     ELSE show_faction_warning } :
       \E messages \in { IF show_faction_warning THEN << >>
                         ELSE warning_messages } :
           /\ order # << >>
           /\ shown_warnings' =
                IF show_faction_warning THEN warning_messages ELSE << >>
           /\ next_turn_order_names' = order
           /\ \E selected_map \in MapInputs, factions \in FactionInputs,
                 vps \in VPInputs :
              \E input \in { GameResultsInput(order, factions, vps) } :
              \E faction_warning_check \in { FactionWarningCheck(players, input) } :
              \E selected \in { SelectedFactionsThisGame(input) } :
                /\ game_results_input' = input
                /\ IF HasDuplicateFaction(selected)
                   THEN /\ error' = DuplicateFactionError(Duplicates(selected))
                        /\ show_faction_warning' = flag
                        /\ warning_messages' = messages
                        /\ pc' = "idle"
                        /\ UNCHANGED << players, games >>
                   ELSE \E logged \in { LogResults(players, << >>,
                                                   SortedResults(input), 1) } :
                        /\ error' = NoError
                        /\ show_faction_warning' =
                                IF faction_warning_check # << >> THEN TRUE
                                ELSE flag
                        /\ warning_messages' =
                                IF faction_warning_check # << >>
                                THEN faction_warning_check
                                ELSE messages
                        /\ players' = logged.players
                        /\ games' = Append(games,
                                GameLogEntry(Len(games) + 1, selected_map,
                                             order, logged.results))
                        /\ pc' = "rerun"
    /\ UNCHANGED << initialized, hash_seed, player_names >>

Next ==
    \/ PlayerFormSubmit
    \/ ScriptRun
    \/ GameLogSubmit

(* ---------------------- the ledger, folded ---------------------------- *)

\* The results of player name in the games gs, in the order of the games.
RECURSIVE ResultsOf(_, _)
ResultsOf(gs, name) ==
    IF gs = << >> THEN << >>
    ELSE LET mine(r) == r.name = name
         IN  SelectSeq(Head(gs).results, mine) \o ResultsOf(Tail(gs), name)

RECURSIVE SumField(_, _)
SumField(rs, field) ==
    IF rs = << >> THEN 0 ELSE Head(rs)[field] + SumField(Tail(rs), field)

RECURSIVE FirstAppearances(_)
FirstAppearances(rs) ==
    IF rs = << >> THEN << >>
    ELSE LET front == FirstAppearances(SubSeq(rs, 1, Len(rs) - 1))
             f == rs[Len(rs)].faction
         IN  IF f \in Range(front) THEN front ELSE Append(front, f)

PositionIn(seq, x) ==
    CHOOSE i \in 1..Len(seq) : seq[i] = x

(* ------------------------------ claims -------------------------------- *)

\* C1: in every reachable state every player's cumulative fields equal the
\* fold over the stored games: total_tp = sum of tp, total_vp = sum of vp,
\* wins = number of rank 1 results, total_placement_sum = sum of ranks,
\* games_played = number of stored games containing the player, last_vp =
\* vp in the most recent game (0 before the first game), played_factions =
\* the distinct factions in order of first appearance.
C1_PlayersMatchLedger ==
    \A i \in 1..Len(players) :
        LET p == players[i]
            rs == ResultsOf(games, p.name)
            won(r) == r.rank = 1
        IN  /\ p.total_tp = SumField(rs, "tp")
            /\ p.total_vp = SumField(rs, "vp")
            /\ p.wins = Len(SelectSeq(rs, won))
            /\ p.total_placement_sum = SumField(rs, "rank")
            /\ p.games_played =
                 Cardinality({ k \in 1..Len(games) :
                     \E j \in 1..Len(games[k].results) :
                         games[k].results[j].name = p.name })
            /\ p.last_vp =
                 IF games = << >> THEN 0
                 ELSE LET last == games[Len(games)].results
                          j == CHOOSE j \in 1..Len(last) : last[j].name = p.name
                      IN  last[j].vp
            /\ p.played_factions = FirstAppearances(rs)

\* C1 witness: two games are stored and some player played the same
\* faction in both, with victory points in the first game and wins.
C1_Witness ==
    /\ Len(games) = 2
    /\ \E i \in 1..Len(players) :
          /\ players[i].games_played = 2
          /\ Len(players[i].played_factions) = 1
          /\ players[i].last_vp # players[i].total_vp
          /\ players[i].wins >= 1

\* The factions chosen by more than one row of a game form.
ChosenMoreThanOnce(input) ==
    { input[i].faction : i \in { i \in 1..Len(input) :
        \E j \in 1..Len(input) : j # i /\ input[j].faction = input[i].faction } }

\* C2: a script run that read a game form in which some faction is chosen by
\* more than one player leaves the games, the players, the next turn order
\* and the warning state as they were, and its error names exactly the
\* factions that were chosen more than once.
C2_DuplicateFactionRejected ==
    [][ (/\ game_results_input' # << >>
         /\ ChosenMoreThanOnce(game_results_input') # {})
        => /\ games' = games
           /\ players' = players
           /\ next_turn_order_names' = next_turn_order_names
           /\ show_faction_warning' = show_faction_warning
           /\ warning_messages' = warning_messages
           /\ error'.kind = "duplicate_faction"
           /\ Range(error'.factions) = ChosenMoreThanOnce(game_results_input')
      ]_vars

\* C2 witness: after a stored game, a submission that chose two factions
\* twice each was rejected.
C2_Witness ==
    /\ Len(games) >= 1
    /\ game_results_input # << >>
    /\ Cardinality(ChosenMoreThanOnce(game_results_input)) = 2
    /\ error.kind = "duplicate_faction"

\* The rows or results with victory points at or above 30.
AtDominance(rs) ==
    { i \in 1..Len(rs) : rs[i].vp >= 30 }

C4_RanksByVPThenTurnOrder ==
    \A k \in 1..Len(games) :
        LET g == games[k]
        IN  \A a, b \in Range(g.results) :
                /\ a.vp > b.vp => a.rank < b.rank
                /\ (/\ a.vp = b.vp
                    /\ PositionIn(g.turn_order, a.name)
                         < PositionIn(g.turn_order, b.name))
                   => a.rank < b.rank

\* C4 witness: a stored second game has two results with equal vp, and its
\* turn order differs from the first game's.
C4_Witness ==
    /\ Len(games) = 2
    /\ games[2].turn_order # games[1].turn_order
    /\ \E a, b \in Range(games[2].results) : a.name # b.name /\ a.vp = b.vp

\* Position of the player named name in the computed next turn order.
OrderPosition(name) ==
    PositionIn(next_turn_order_names, name)

\* C5 as stated: of two players with equal total_tp the one with the lower
\* last_vp is earlier in the order calculate_next_turn_order returned.
C5_LowerLastVPFirst ==
    next_turn_order_names # << >> =>
        \A p, q \in Range(players) :
            (p.total_tp = q.total_tp /\ p.last_vp < q.last_vp)
            => OrderPosition(p.name) < OrderPosition(q.name)

\* C5 amended: of two players with equal total_tp the one with the HIGHER
\* last_vp is earlier in the order calculate_next_turn_order returned (with
\* last_vp 25 and 10 the player with 25 comes first).
C5_HigherLastVPFirst ==
    next_turn_order_names # << >> =>
        \A p, q \in Range(players) :
            (p.total_tp = q.total_tp /\ p.last_vp > q.last_vp)
            => OrderPosition(p.name) < OrderPosition(q.name)

\* C5 witness: the order was computed for a roster in which the earlier
\* registered player has last_vp 10, a later one 25 and the same total_tp.
C5_Witness ==
    /\ next_turn_order_names # << >>
    /\ \E i, j \in 1..Len(players) :
          /\ i < j
          /\ players[i].total_tp = players[j].total_tp
          /\ players[i].last_vp = 10
          /\ players[j].last_vp = 25

\* C6: the order calculate_next_turn_order returned holds every player name
\* exactly once, a player with strictly fewer total_tp precedes one with
\* more, and players equal in total_tp and last_vp keep their order of the
\* players list.
C6_TurnOrderPermutationSortedStable ==
    next_turn_order_names # << >> =>
        /\ Len(next_turn_order_names) = Len(players)
        /\ \A i \in 1..Len(players) :
              Cardinality({ k \in 1..Len(next_turn_order_names) :
                  next_turn_order_names[k] = players[i].name }) = 1
        /\ \A i, j \in 1..Len(players) :
              /\ players[i].total_tp < players[j].total_tp
                 => OrderPosition(players[i].name) < OrderPosition(players[j].name)
              /\ (/\ i < j
                  /\ players[i].total_tp = players[j].total_tp
                  /\ players[i].last_vp = players[j].last_vp)
                 => OrderPosition(players[i].name) < OrderPosition(players[j].name)

\* C6 witness: the order was computed for a roster with a pair equal in both
\* keys and a later registered player with fewer total_tp than an earlier one.
C6_Witness ==
    /\ next_turn_order_names # << >>
    /\ \E i, j \in 1..Len(players) :
          /\ i < j
          /\ players[i].total_tp = players[j].total_tp
          /\ players[i].last_vp = players[j].last_vp
    /\ \E i, j \in 1..Len(players) :
          i < j /\ players[j].total_tp < players[i].total_tp

\* The scoring table as documented: 1->10, 2->7, 3->5, 4->3, 5->1, else 0.
ScoringTable(rank) ==
    CASE rank = 1 -> 10
      [] rank = 2 -> 7
      [] rank = 3 -> 5
      [] rank = 4 -> 3
      [] rank = 5 -> 1
      [] OTHER -> 0

\* C7: in every stored game, whatever its number and the games before it,
\* each result's tp is the scoring table applied to its rank (0 for a rank
\* outside the table).
C7_TPFromScoringTable ==
    \A k \in 1..Len(games) :
        \A j \in 1..Len(games[k].results) :
            games[k].results[j].tp = ScoringTable(games[k].results[j].rank)

\* C7 witness: in the second stored game the player who was last in the
\* first game (rank 5, 1 point) has rank 1 and 10 points.
C7_Witness ==
    /\ Len(games) = 2
    /\ \E a \in Range(games[1].results), b \in Range(games[2].results) :
          /\ a.name = b.name
          /\ a.rank = 5 /\ a.tp = 1
          /\ b.rank = 1 /\ b.tp = 10

\* C8: every stored game has as many results as names in its turn order,
\* every name of the turn order in exactly one result and no other name,
\* the ranks 1..N each once, and no faction in more than one result.
C8_GamesWellFormed ==
    \A k \in 1..Len(games) :
        LET g == games[k]
            n == Len(g.results)
        IN  /\ n = Len(g.turn_order)
            /\ \A t \in 1..Len(g.turn_order) :
                  Cardinality({ j \in 1..n :
                      g.results[j].name = g.turn_order[t] }) = 1
            /\ \A j \in 1..n : g.results[j].name \in Range(g.turn_order)
            /\ { g.results[j].rank : j \in 1..n } = 1..n
            /\ \A i, j \in 1..n :
                  i # j => /\ g.results[i].rank # g.results[j].rank
                           /\ g.results[i].faction # g.results[j].faction

\* C8 witness: two games are stored and the two were entered with different
\* factions for the same player.
C8_Witness ==
    /\ Len(games) = 2
    /\ \E a \in Range(games[1].results), b \in Range(games[2].results) :
          a.name = b.name /\ a.faction # b.faction

\* C9: every step leaves the list of games as it is or appends exactly one
\* game whose game_number is the previous length plus one; the i-th stored
\* game has game_number i.
C9_GamesAppendOnly ==
    [][ /\ \/ games' = games
           \/ /\ Len(games') = Len(games) + 1
              /\ SubSeq(games', 1, Len(games)) = games
              /\ games'[Len(games')].game_number = Len(games) + 1
        /\ \A i \in 1..Len(games') : games'[i].game_number = i
      ]_vars

\* C9 witness: two games are stored and the page has been rendered again
\* after the second.
C9_Witness ==
    /\ Len(games) = 2
    /\ games[2].game_number = 2
    /\ pc = "idle"
    /\ game_results_input = << >>

RepeatedFactions(gs, input) ==
    LET repeats(r) ==
            \E k \in 1..Len(gs) : \E j \in 1..Len(gs[k].results) :
                /\ gs[k].results[j].name = r.name
                /\ gs[k].results[j].faction = r.faction
        rows == SelectSeq(input, repeats)
    IN  [i \in 1..Len(rows) |-> << rows[i].name, rows[i].faction >>]

\* C11: a script run that read a game form without a faction chosen twice
\* stores the game even if players repeat factions of their earlier games,
\* and records exactly one warning per repeating player; the script run
\* that follows displays these warnings and leaves the flag false and the
\* message list empty; a script run that starts with the flag false
\* displays no warning unless it records new ones itself.
C11_WarningsNeverBlockShownOnce ==
    [][ /\ (/\ game_results_input' # << >>
            /\ ChosenMoreThanOnce(game_results_input') = {})
           => /\ Len(games') = Len(games) + 1
              /\ warning_messages' = RepeatedFactions(games, game_results_input')
              /\ show_faction_warning' = (warning_messages' # << >>)
              /\ Len(warning_messages') =
                    Cardinality({ warning_messages'[i][1] :
                                    i \in 1..Len(warning_messages') })
        /\ (pc = "rerun" /\ show_faction_warning)
           => /\ shown_warnings' = warning_messages
              /\ ~show_faction_warning'
              /\ warning_messages' = << >>
        /\ ~show_faction_warning => shown_warnings' = << >>
      ]_vars

\* C11 witness: the warnings of the second game, in which two players
\* repeated their faction of the first, have been displayed and cleared.
C11_Witness ==
    /\ Len(games) = 2
    /\ pc = "idle"
    /\ Len(shown_warnings) >= 2
    /\ ~show_faction_warning
    /\ warning_messages = << >>

\* The phase of the tournament as far as the session state records one:
\* the initialized flag is the only phase information the script keeps.
Phase == IF initialized THEN "IN_PROGRESS" ELSE "SETUP"

\* A total-games cap below the number of games the model lets the
\* operator submit.
GamesCap == MaxGames - 1

PlotRowsOf(rows, name) ==
    LET mine(r) == r.Spieler = name
    IN  SelectSeq(rows, mine)

\* The tournament points a name earned in the first j stored games.
PointsAfter(j, name) ==
    SumField(ResultsOf(SubSeq(games, 1, j), name), "tp")

\* C13: for the roster and the k stored games of every reachable state,
\* generate_plot_data yields for each player exactly k+1 points with the
\* indices 0..k; the value at index 0 is 0 and the value at index j is the
\* sum of the player's tp over the first j games; the values never
\* decrease and the last one equals the player's total_tp.
C13_PlotIsCumulativeTP ==
    \A rows \in { generate_plot_data(games, players) } :
        /\ Len(rows) = Len(players) * (Len(games) + 1)
        /\ \A i \in 1..Len(players) :
             \A mine \in { PlotRowsOf(rows, players[i].name) } :
                /\ Len(mine) = Len(games) + 1
                /\ \A j \in 0..Len(games) :
                     /\ mine[j + 1].Spiel = j
                     /\ mine[j + 1].Kumulierte_Turnierpunkte
                            = PointsAfter(j, players[i].name)
                /\ mine[1].Kumulierte_Turnierpunkte = 0
                /\ \A j \in 1..Len(games) :
                     mine[j + 1].Kumulierte_Turnierpunkte
                         >= mine[j].Kumulierte_Turnierpunkte
                /\ mine[Len(mine)].Kumulierte_Turnierpunkte
                       = players[i].total_tp

\* C13 witness: two games are stored, the page has been rendered, and the
\* plot of one player runs 0, 1, 11 (a fifth place, then a win).
C13_Witness ==
    /\ Len(games) = 2
    /\ pc = "idle"
    /\ \E i \in 1..Len(players) :
         LET mine == PlotRowsOf(generate_plot_data(games, players),
                                players[i].name)
         IN  /\ Len(mine) = 3
             /\ mine[1].Kumulierte_Turnierpunkte = 0
             /\ mine[2].Kumulierte_Turnierpunkte = 1
             /\ mine[3].Kumulierte_Turnierpunkte = 11

\* The places (game, row) of the stored results that name a faction.
ResultsWithFaction(f) ==
    { kj \in (1..Len(games)) \X (1..NUM_PLAYERS) :
        /\ kj[2] <= Len(games[kj[1]].results)
        /\ games[kj[1]].results[kj[2]].faction = f }

\* A frame of faction statistics has exactly one row for every known
\* faction, with its number of stored results as count and its number of
\* rank 1 results as wins; a faction never played has count 0, wins 0 and
\* the cell '-' for both averages, a played one has numbers there.
OneRowPerFaction(df) ==
    /\ Cardinality(df) = Len(FACTIONS)
    /\ \A i \in 1..Len(FACTIONS) :
         \E row \in df :
            /\ row.Fraktion = FACTIONS[i]
            /\ \A other \in df : other.Fraktion = FACTIONS[i] => other = row
            /\ row.Gespielt = Cardinality(ResultsWithFaction(FACTIONS[i]))
            /\ row.Siege = Cardinality({ kj \in ResultsWithFaction(FACTIONS[i]) :
                              games[kj[1]].results[kj[2]].rank = 1 })
            /\ row.Gespielt = 0
               => /\ row.Siege = 0
                  /\ row.Avg_Siegpunkte.text = "-"
                  /\ row.Avg_Turnierpunkte.text = "-"
            /\ row.Gespielt > 0
               => /\ row.Avg_Siegpunkte.text # "-"
                  /\ row.Avg_Turnierpunkte.text # "-"

\* C14 as stated: for every list of stored games, the empty list included,
\* calculate_faction_stats reports exactly one row per known faction.
C14_OneRowPerFactionAlways ==
    OneRowPerFaction(calculate_faction_stats(games, FACTIONS))

\* C14: for every non-empty list of stored games calculate_faction_stats
\* reports exactly one row per known faction with its count and wins, a
\* faction never played reporting 0, 0 and the cell '-'; for the empty
\* list it reports no row at all.
C14_OneRowPerFactionUnlessNoGames ==
    \A df \in { calculate_faction_stats(games, FACTIONS) } :
        IF games = << >> THEN df = {} ELSE OneRowPerFaction(df)

\* C14 witness: after two games one faction was played twice and won once,
\* and the last faction of the list was never played.
C14_Witness ==
    /\ Len(games) = 2
    /\ \E row \in calculate_faction_stats(games, FACTIONS) :
         row.Gespielt = 2 /\ row.Siege = 1
    /\ \E row \in calculate_faction_stats(games, FACTIONS) :
         /\ row.Fraktion = FACTIONS[Len(FACTIONS)]
         /\ row.Gespielt = 0
         /\ row.Avg_Siegpunkte = NoAverage

\* The name fields hold exactly NUM_PLAYERS distinct non-empty names.
DistinctNonEmptyNames(names) ==
    /\ Len(names) = NUM_PLAYERS
    /\ \A i \in 1..Len(names) : names[i] # ""
    /\ \A i, j \in 1..Len(names) : i # j => names[i] # names[j]

\* A roster as setup leaves it: one player per typed name, names and ids
\* pairwise distinct, every cumulative field zero or empty.
FreshRoster(ps, names) ==
    /\ Len(ps) = NUM_PLAYERS
    /\ { ps[i].name : i \in 1..Len(ps) } = Range(names)
    /\ \A i, j \in 1..Len(ps) :
         i # j => ps[i].name # ps[j].name /\ ps[i].id # ps[j].id
    /\ \A i \in 1..Len(ps) :
         /\ ps[i].total_tp = 0
         /\ ps[i].total_vp = 0
         /\ ps[i].wins = 0
         /\ ps[i].last_vp = 0
         /\ ps[i].played_factions = << >>
         /\ ps[i].total_placement_sum = 0
         /\ ps[i].games_played = 0

\* C15: while the tournament is not initialized there are no players and
\* no games; a script run initializes it exactly when the name fields it
\* read hold NUM_PLAYERS distinct non-empty names, and then the roster has
\* pairwise distinct names and ids and all cumulative fields zero or
\* empty; with any other names it reports the setup error and leaves the
\* tournament uninitialized with no players and no games.
C15_SetupNeedsDistinctNonEmptyNames ==
    [][ ~initialized
        => /\ players = << >> /\ games = << >>
           /\ initialized' <=> DistinctNonEmptyNames(player_names')
           /\ initialized'
              => /\ FreshRoster(players', player_names')
                 /\ games' = << >>
           /\ ~initialized'
              => /\ players' = << >>
                 /\ games' = << >>
                 /\ next_turn_order_names' = << >>
           /\ player_names' # player_names
              => (initialized' \/ error' = SetupError)
      ]_vars

\* C15 witness: setup has just succeeded, with a hash seed that put a
\* later typed name first in the roster; no game is stored yet.
C15_Witness ==
    /\ initialized
    /\ pc = "rerun"
    /\ games = << >>
    /\ DistinctNonEmptyNames(player_names)
    /\ FreshRoster(players, player_names)
    /\ players[1].name # player_names[1]

\* The victory points a name scored in the last of the first j stored
\* games it took part in; 0 if there is none.
LastVPAfter(j, name) ==
    LET rs == ResultsOf(SubSeq(games, 1, j), name)
    IN  IF rs = << >> THEN 0 ELSE rs[Len(rs)].vp

\* The place of a name in the roster.
RosterIndex(name) ==
    CHOOSE i \in 1..Len(players) : players[i].name = name

\* Name a goes before name b in the turn order that follows the first j
\* stored games: fewer tournament points, or as many and more victory
\* points in the last game, or equal in both and earlier in the roster.
GoesBefore(a, b, j) ==
    \/ PointsAfter(j, a) < PointsAfter(j, b)
    \/ /\ PointsAfter(j, a) = PointsAfter(j, b)
       /\ LastVPAfter(j, a) > LastVPAfter(j, b)
    \/ /\ PointsAfter(j, a) = PointsAfter(j, b)
       /\ LastVPAfter(j, a) = LastVPAfter(j, b)
       /\ RosterIndex(a) < RosterIndex(b)

\* C16: in every reachable state the turn order stored in game k holds
\* every name of the roster exactly once and is the next turn order of the
\* players as they stood after game k-1 (for k = 1: after setup); that
\* the players have since been credited with game k and later games has
\* not changed it.
C16_StoredOrderIsOrderAfterPreviousGame ==
    \A k \in 1..Len(games) :
        \A order \in { games[k].turn_order } :
            /\ Len(order) = Len(players)
            /\ \A i \in 1..Len(players) :
                 Cardinality({ a \in 1..Len(order) :
                                 order[a] = players[i].name }) = 1
            /\ \A a, b \in 1..Len(order) :
                 a < b => GoesBefore(order[a], order[b], k - 1)

\* C16 witness: two games are stored and the players are credited with
\* both; the second game was opened by the player who came fifth in the
\* first and closed by its winner, who did not open the first.
C16_Witness ==
    /\ Len(games) = 2
    /\ pc = "idle"
    /\ \E r \in Range(games[1].results) :
         r.rank = NUM_PLAYERS /\ games[2].turn_order[1] = r.name
    /\ \E r \in Range(games[1].results) :
         /\ r.rank = 1
         /\ games[2].turn_order[NUM_PLAYERS] = r.name
         /\ games[1].turn_order[NUM_PLAYERS] # r.name
    /\ \A i \in 1..Len(players) : players[i].games_played = 2

Spec ==
    Init /\ [][Next]_vars

\* calculate_next_turn_order on its own: any roster of OrderInputs is in the
\* session state and a script run computes the next turn order from it.
InitOrder ==
    /\ players \in OrderInputs
    /\ games = << >>
    /\ next_turn_order_names = << >>
    /\ initialized = TRUE
    /\ show_faction_warning = FALSE
    /\ warning_messages = << >>
    /\ pc = "rerun"
    /\ hash_seed = 0
    /\ player_names = NAME_POOL
    /\ game_results_input = << >>
    /\ error = NoError
    /\ shown_warnings = << >>

NextOrder ==
    ScriptRun

SpecOrder ==
    InitOrder /\ [][NextOrder]_vars

=============================================================================
